---- MODULE Spec2Model ----
(***************************************************************************)
(* Model of walletscan/tronexporter.py: the rule registration of           *)
(* TronTransferExporter, the grouping pass _group_transfers, the merge     *)
(* pass _merge_transfers and the classification / row loop of              *)
(* CoinTrackingExporter.export_csv.                                        *)
(*                                                                         *)
(* A transfer is a record with the fields of walletscan.TronTransfer plus  *)
(* id, which stands for the identity of the Python object (its position in *)
(* the fetched list; an aggregate built by the merge pass gets a fresh     *)
(* one).  Python's None is the string "None"; addresses of transfers are   *)
(* never None.                                                             *)
(***************************************************************************)
EXTENDS Integers, Sequences, FiniteSets, TLC

VARIABLES
    assignments,          \* self.assignments
    group_filters,        \* self.group_filters
    console,              \* last line printed
    pc,                   \* "config", "group", "merge", "write", "done", "exit", "IndexError"
    transfers,            \* the parsed transfers handed to the pipeline
    ptr,                  \* export_csv: the list the rows are written from
    sorted_tr,            \* _group_transfers locals
    i,
    grouped_tr,
    ungrouped_tr,
    new_group_currenys,
    groups,               \* _merge_transfers locals
    trs,
    gi,
    rows,                 \* rows written to the file so far
    ri,
    returned              \* how each call of _merge_transfers ended, oldest first

vars == <<assignments, group_filters, console, pc, transfers, ptr, sorted_tr, i,
          grouped_tr, ungrouped_tr, new_group_currenys, groups, trs, gi, rows, ri,
          returned>>

----------------------------------------------------------------------------
(* Bounds of the exploration *)

\* longest list of transfers the ledger returns
MaxLen == 3
\* most assignment rules, and most group rules, registered before a run
MaxAssign == 2
MaxFilters == 2
\* amounts are 1..MaxAmount, timestamps 1..MaxTime
MaxAmount == 2
MaxTime == 3
\* most calls of _merge_transfers on one exporter
MaxCalls == 2

None == "None"
wallet_address == "W"

----------------------------------------------------------------------------
(* Lists *)

InList(s, x) == \E k \in 1..Len(s) : s[k] = x

\* list.remove(x): drops the first occurrence
Remove(s, x) ==
    IF ~InList(s, x) THEN s
    ELSE LET k == CHOOSE j \in 1..Len(s) : s[j] = x /\ \A l \in 1..(j-1) : s[l] # x
         IN SubSeq(s, 1, k-1) \o SubSeq(s, k+1, Len(s))

\* x put into a list sorted by timestamp, after every element that is not later
InsertByTimestamp(s, x) ==
    LET k == Cardinality({j \in 1..Len(s) : s[j].timestamp <= x.timestamp})
    IN SubSeq(s, 1, k) \o <<x>> \o SubSeq(s, k+1, Len(s))

RECURSIVE SortByTimestamp(_)
\* sorted(..., key=lambda x: x.timestamp) and list.sort(key=...): stable
SortByTimestamp(s) ==
    IF s = <<>> THEN <<>>
    ELSE InsertByTimestamp(SortByTimestamp(SubSeq(s, 1, Len(s)-1)), s[Len(s)])

----------------------------------------------------------------------------
(* _group_transfers *)

\* index of the key tok in the dict grouped (insertion order), 0 when absent
KeyIndex(grouped, tok) ==
    IF \E k \in 1..Len(grouped) : grouped[k].token_name = tok
    THEN CHOOSE k \in 1..Len(grouped) : grouped[k].token_name = tok
    ELSE 0

NewGroup(is_outgoing, address) ==
    [is_outgoing |-> is_outgoing, address |-> address, transfers |-> <<>>]

\* 'If the current transfer does not fit into the group': the test of both branches
DoesNotFit(last, address, flagged) ==
    last.is_outgoing \/ last.address # address \/ flagged

\* body of the deposit branch (is_outgoing = FALSE, address = t.from_address) and
\* of the withdrawal branch (is_outgoing = TRUE, address = t.to_address)
AddToGroup(st, t, is_outgoing, address) ==
    LET tok == t.token_name
        g1 == IF KeyIndex(st.grouped_tr, tok) = 0
              THEN Append(st.grouped_tr, [token_name |-> tok, count |-> 0, groups |-> <<>>])
              ELSE st.grouped_tr
        k  == KeyIndex(g1, tok)
        e1 == g1[k]
        e2 == IF e1.count = 0
              THEN [e1 EXCEPT !.groups = Append(@, NewGroup(is_outgoing, address)),
                              !.count = 1]
              ELSE e1
        flagged == InList(st.new_group_currenys, tok)
        nofit == DoesNotFit(e2.groups[e2.count], address, flagged)
        e3 == IF nofit
              THEN [e2 EXCEPT !.groups = Append(@, NewGroup(is_outgoing, address)),
                              !.count = @ + 1]
              ELSE e2
        e4 == [e3 EXCEPT !.groups[e3.count].transfers = Append(@, t)]
    IN [st EXCEPT !.grouped_tr = [g1 EXCEPT ![k] = e4],
                  !.new_group_currenys = IF nofit /\ flagged THEN Remove(@, tok) ELSE @]

IsDepositMatch(f, t) == f.from_address # None /\ f.from_address = t.from_address
IsWithdrawalMatch(f, t) == f.to_address # None /\ f.to_address = t.to_address

\* the first filter, in registration order, one of whose branches takes t; 0 if none
FirstFilter(filters, t) ==
    IF \E k \in 1..Len(filters) : IsDepositMatch(filters[k], t) \/ IsWithdrawalMatch(filters[k], t)
    THEN CHOOSE k \in 1..Len(filters) :
            /\ IsDepositMatch(filters[k], t) \/ IsWithdrawalMatch(filters[k], t)
            /\ \A l \in 1..(k-1) :
                 ~(IsDepositMatch(filters[l], t) \/ IsWithdrawalMatch(filters[l], t))
    ELSE 0

\* NotGrouped without the note that the token's run was interrupted
NotGroupedUnflagged(st, t) ==
    [st EXCEPT !.ungrouped_tr = Append(@, t)]

\* 'if not is_grouped'
NotGrouped(st, t) ==
    [st EXCEPT
       !.new_group_currenys =
           IF KeyIndex(st.grouped_tr, t.token_name) # 0 /\ ~InList(@, t.token_name)
           THEN Append(@, t.token_name) ELSE @,
       !.ungrouped_tr = Append(@, t)]

\* GroupOne in which a transfer taken by the withdrawal branch does not count as
\* grouped and goes on to the ungrouped list as well
GroupOneForgetful(filters, st, t) ==
    LET m == FirstFilter(filters, t)
    IN IF m = 0 THEN NotGrouped(st, t)
       ELSE IF IsDepositMatch(filters[m], t)
            THEN AddToGroup(st, t, FALSE, t.from_address)
            ELSE NotGrouped(AddToGroup(st, t, TRUE, t.to_address), t)

\* one iteration of 'for t in sorted_tr'
GroupOne(filters, st, t) ==
    LET m == FirstFilter(filters, t)
    IN IF m = 0 THEN NotGrouped(st, t)
       ELSE IF IsDepositMatch(filters[m], t)
            THEN AddToGroup(st, t, FALSE, t.from_address)
            ELSE AddToGroup(st, t, TRUE, t.to_address)

EmptyGrouping == [grouped_tr |-> <<>>, ungrouped_tr |-> <<>>, new_group_currenys |-> <<>>]

RECURSIVE GroupAll(_, _)
GroupAll(filters, s) ==
    IF s = <<>> THEN EmptyGrouping
    ELSE GroupOne(filters, GroupAll(filters, SubSeq(s, 1, Len(s)-1)), s[Len(s)])

RECURSIVE CollectGroupsLastTokenFirst(_)
\* CollectGroups walking the tokens from the last one inserted to the first
CollectGroupsLastTokenFirst(grouped) ==
    IF grouped = <<>> THEN <<>>
    ELSE CollectGroupsLastTokenFirst(Tail(grouped))
         \o [k \in 1..Len(grouped[1].groups) |-> grouped[1].groups[k].transfers]

\* 'for _, value in grouped_tr.items(): for g_filter in value['groups']'
RECURSIVE CollectGroups(_)
CollectGroups(grouped) ==
    IF grouped = <<>> THEN <<>>
    ELSE [k \in 1..Len(grouped[1].groups) |-> grouped[1].groups[k].transfers]
         \o CollectGroups(Tail(grouped))

\* the whole function: (groups, ungrouped)
group_transfers(filters, s) ==
    IF filters = <<>> THEN [groups |-> <<>>, ungrouped |-> s]
    ELSE LET st == GroupAll(filters, SortByTimestamp(s))
         IN [groups |-> CollectGroups(st.grouped_tr), ungrouped |-> st.ungrouped_tr]

----------------------------------------------------------------------------
(* _merge_transfers *)

\* TronTransfer.get_date of a timestamp
get_date(ts) == <<"date", ts>>

\* MergeMember with 'transfer.amount = t.amount' for 'transfer.amount += t.amount'
MergeMemberAssigns(acc, g, t) ==
    [acc EXCEPT !.timestamp = t.timestamp,
                !.amount = t.amount,
                !.confirmed = @ /\ g[1].confirmed]

\* one iteration of 'for t in g'
MergeMember(acc, g, t) ==
    [acc EXCEPT !.timestamp = t.timestamp,
                !.amount = @ + t.amount,
                !.confirmed = @ /\ g[1].confirmed]

RECURSIVE MergeMembers(_, _, _)
MergeMembers(acc, g, n) ==
    IF n = 0 THEN acc ELSE MergeMember(MergeMembers(acc, g, n-1), g, g[n])

\* Aggregate that hands a group of one member through as the member itself
AggregatePassingSingle(g, fresh) ==
    IF Len(g) = 1 THEN g[1]
    ELSE LET start == [id |-> fresh,
                       from_address |-> g[1].from_address,
                       to_address |-> g[1].to_address,
                       token_name |-> g[1].token_name,
                       amount |-> 0,
                       timestamp |-> 0,
                       confirmed |-> TRUE,
                       comment |-> <<>>]
             acc == MergeMembers(start, g, Len(g))
         IN [acc EXCEPT !.comment =
                <<"Grouped", get_date(g[1].timestamp), get_date(acc.timestamp)>>]

\* the aggregate of a non-empty group g; fresh is the identity of the new object
Aggregate(g, fresh) ==
    LET start == [id |-> fresh,
                  from_address |-> g[1].from_address,
                  to_address |-> g[1].to_address,
                  token_name |-> g[1].token_name,
                  amount |-> 0,
                  timestamp |-> 0,
                  confirmed |-> TRUE,
                  comment |-> <<>>]
        acc == MergeMembers(start, g, Len(g))
    IN [acc EXCEPT !.comment = <<"Grouped", get_date(g[1].timestamp), get_date(acc.timestamp)>>]

RECURSIVE Aggregates(_, _, _)
\* the aggregates of the groups gs[1..n]; the k-th is object number base + k
Aggregates(gs, n, base) ==
    IF n = 0 THEN <<>> ELSE Append(Aggregates(gs, n-1, base), Aggregate(gs[n], base + n))

\* the whole function: the list returned, or raised when g[0] fails on an empty group
merge_transfers(filters, s) ==
    IF filters = <<>> THEN [raised |-> FALSE, value |-> s]
    ELSE LET r == group_transfers(filters, s)
         IN IF \E k \in 1..Len(r.groups) : r.groups[k] = <<>>
            THEN [raised |-> TRUE, value |-> <<>>]
            ELSE [raised |-> FALSE,
                  value |-> SortByTimestamp(r.ungrouped
                                            \o Aggregates(r.groups, Len(r.groups), Len(s)))]

----------------------------------------------------------------------------
(* export_csv: the type of a row *)

AssignMatches(assign, tr) ==
    tr.from_address = assign.from_address \/ tr.to_address = assign.to_address

\* FirstAssign without the break: the last matching rule wins
FirstAssignNoBreak(assigns, tr) ==
    IF \E k \in 1..Len(assigns) : AssignMatches(assigns[k], tr)
    THEN CHOOSE k \in 1..Len(assigns) :
            AssignMatches(assigns[k], tr)
            /\ \A l \in (k+1)..Len(assigns) : ~AssignMatches(assigns[l], tr)
    ELSE 0

\* index of the rule at which 'for assign in self.assignments' breaks, 0 if it runs out
FirstAssign(assigns, tr) ==
    IF \E k \in 1..Len(assigns) : AssignMatches(assigns[k], tr)
    THEN CHOOSE k \in 1..Len(assigns) :
            AssignMatches(assigns[k], tr) /\ \A l \in 1..(k-1) : ~AssignMatches(assigns[l], tr)
    ELSE 0

\* RowType that keeps the initial TransferType.Deposit where the code calls exit()
RowTypeDefaulting(assigns, tr) ==
    LET m == FirstAssign(assigns, tr)
    IN IF m # 0 THEN assigns[m].transfer_type
       ELSE IF tr.to_address = wallet_address THEN "Deposit"
       ELSE IF tr.from_address = wallet_address THEN "Withdrawal"
       ELSE "Deposit"

\* the type the loop body arrives at, "exit" when it calls exit()
RowType(assigns, tr) ==
    LET m == FirstAssign(assigns, tr)
    IN IF m # 0 THEN assigns[m].transfer_type
       ELSE IF tr.to_address = wallet_address THEN "Deposit"
       ELSE IF tr.from_address = wallet_address THEN "Withdrawal"
       ELSE "exit"

----------------------------------------------------------------------------
(* Inputs *)

TransferRecords(pairs, toks, amts, times, confs) ==
    { [id |-> 0, from_address |-> p[1], to_address |-> p[2], token_name |-> tk,
       amount |-> a, timestamp |-> ts, confirmed |-> c, comment |-> <<>>] :
      p \in pairs, tk \in toks, a \in amts, ts \in times, c \in confs }

\* the lists of at most MaxLen transfers over U, each transfer its own object
Ledger(U) ==
    { [k \in 1..Len(s) |-> [s[k] EXCEPT !.id = k]] :
      s \in UNION { [1..n -> U] : n \in 0..MaxLen } }

----------------------------------------------------------------------------
(* Actions *)

Init ==
    /\ assignments = <<>>
    /\ group_filters = <<>>
    /\ console = ""
    /\ pc = "config"
    /\ transfers = <<>>
    /\ ptr = <<>>
    /\ sorted_tr = <<>>
    /\ i = 1
    /\ grouped_tr = <<>>
    /\ ungrouped_tr = <<>>
    /\ new_group_currenys = <<>>
    /\ groups = <<>>
    /\ trs = <<>>
    /\ gi = 1
    /\ rows = <<>>
    /\ ri = 1
    /\ returned = <<>>

add_assign(transfer_type, from_address, to_address) ==
    /\ pc = "config"
    /\ Len(assignments) < MaxAssign
    /\ IF from_address = None /\ to_address = None
       THEN /\ console' = "Either sender address or destination address must be set."
            /\ UNCHANGED assignments
       ELSE /\ assignments' = Append(assignments,
                  [transfer_type |-> transfer_type, from_address |-> from_address,
                   to_address |-> to_address])
            /\ UNCHANGED console
    /\ UNCHANGED <<group_filters, pc, transfers, ptr, sorted_tr, i, grouped_tr, ungrouped_tr,
                   new_group_currenys, groups, trs, gi, rows, ri, returned>>

\* add_group_filter without the check of its arguments
add_group_filter_unchecked(currency, from_address, to_address) ==
    /\ pc = "config"
    /\ Len(group_filters) < MaxFilters
    /\ group_filters' = Append(group_filters,
           [currency |-> currency, from_address |-> from_address, to_address |-> to_address])
    /\ UNCHANGED <<assignments, console, pc, transfers, ptr, sorted_tr, i, grouped_tr,
                   ungrouped_tr, new_group_currenys, groups, trs, gi, rows, ri, returned>>

add_group_filter(currency, from_address, to_address) ==
    /\ pc = "config"
    /\ Len(group_filters) < MaxFilters
    /\ IF from_address = None /\ to_address = None
       THEN /\ console' = "Either sender address or destination address must be set."
            /\ UNCHANGED group_filters
       ELSE /\ group_filters' = Append(group_filters,
                  [currency |-> currency, from_address |-> from_address,
                   to_address |-> to_address])
            /\ UNCHANGED console
    /\ UNCHANGED <<assignments, pc, transfers, ptr, sorted_tr, i, grouped_tr, ungrouped_tr,
                   new_group_currenys, groups, trs, gi, rows, ri, returned>>

\* export_csv whose grouping pass takes the transfers in arrival order
export_csv_unsorted(fetched) ==
    /\ pc = "config"
    /\ transfers' = fetched
    /\ IF group_filters = <<>>
       THEN /\ ptr' = fetched
            /\ pc' = "write"
            /\ console' = "Writing CSV for CoinTracking.info ..."
            /\ rows' = <<>>
            /\ ri' = 1
            /\ UNCHANGED <<sorted_tr, i, grouped_tr, ungrouped_tr, new_group_currenys,
                           returned>>
       ELSE /\ sorted_tr' = fetched
            /\ grouped_tr' = <<>>
            /\ ungrouped_tr' = <<>>
            /\ new_group_currenys' = <<>>
            /\ i' = 1
            /\ pc' = "group"
            /\ console' = "Merging grouped transfers ..."
            /\ UNCHANGED <<ptr, rows, ri, returned>>
    /\ UNCHANGED <<assignments, group_filters, groups, trs, gi>>

\* export_csv that sorts what it fetched before writing it, rules or no rules
export_csv_sorting(fetched) ==
    /\ pc = "config"
    /\ transfers' = fetched
    /\ IF group_filters = <<>>
       THEN /\ ptr' = SortByTimestamp(fetched)
            /\ pc' = "write"
            /\ console' = "Writing CSV for CoinTracking.info ..."
            /\ rows' = <<>>
            /\ ri' = 1
            /\ UNCHANGED <<sorted_tr, i, grouped_tr, ungrouped_tr, new_group_currenys,
                           returned>>
       ELSE /\ sorted_tr' = SortByTimestamp(fetched)
            /\ grouped_tr' = <<>>
            /\ ungrouped_tr' = <<>>
            /\ new_group_currenys' = <<>>
            /\ i' = 1
            /\ pc' = "group"
            /\ console' = "Merging grouped transfers ..."
            /\ UNCHANGED <<ptr, rows, ri, returned>>
    /\ UNCHANGED <<assignments, group_filters, groups, trs, gi>>

\* Run in which _group_transfers keeps grouped_tr, ungrouped_tr and
\* new_group_currenys from the call before instead of starting them empty
RunKeepingState(fetched) ==
    /\ transfers' = fetched
    /\ IF group_filters = <<>>
       THEN /\ ptr' = fetched
            /\ pc' = "write"
            /\ console' = "Writing CSV for CoinTracking.info ..."
            /\ rows' = <<>>
            /\ ri' = 1
            /\ UNCHANGED <<sorted_tr, i, returned>>
       ELSE /\ sorted_tr' = SortByTimestamp(fetched)
            /\ i' = 1
            /\ pc' = "group"
            /\ console' = "Merging grouped transfers ..."
            /\ UNCHANGED <<ptr, rows, ri, returned>>
    /\ UNCHANGED <<assignments, group_filters, grouped_tr, ungrouped_tr, new_group_currenys,
                   groups, trs, gi>>

\* a run of export_csv on the transfers fetched, up to the first loop: with no
\* group rule straight to the file and the rows; with rules into _merge_transfers
\* and _group_transfers, whose guards on group_filters then pass and whose locals
\* start empty
Run(fetched) ==
    /\ transfers' = fetched
    /\ IF group_filters = <<>>
       THEN /\ ptr' = fetched
            /\ pc' = "write"
            /\ console' = "Writing CSV for CoinTracking.info ..."
            /\ rows' = <<>>
            /\ ri' = 1
            /\ UNCHANGED <<sorted_tr, i, grouped_tr, ungrouped_tr, new_group_currenys,
                           returned>>
       ELSE /\ sorted_tr' = SortByTimestamp(fetched)
            /\ grouped_tr' = <<>>
            /\ ungrouped_tr' = <<>>
            /\ new_group_currenys' = <<>>
            /\ i' = 1
            /\ pc' = "group"
            /\ console' = "Merging grouped transfers ..."
            /\ UNCHANGED <<ptr, rows, ri, returned>>
    /\ UNCHANGED <<assignments, group_filters, groups, trs, gi>>

\* export_csv, called once the rules are registered
export_csv(fetched) ==
    /\ pc = "config"
    /\ Run(fetched)

\* export_csv called again after a finished run; the ledger returns the same
\* transfers
export_csv_again ==
    /\ pc = "done"
    /\ Len(returned) < MaxCalls
    /\ Run(transfers)

\* the aggregates the earlier calls of _merge_transfers returned
Allocated ==
    UNION { {r.id : r \in {returned[c].value[k] : k \in 1..Len(returned[c].value)}}
            : c \in 1..Len(returned) } \ (1..Len(transfers))

\* _group_transfers: one iteration of 'for t in sorted_tr'
GroupStep ==
    /\ pc = "group"
    /\ i <= Len(sorted_tr)
    /\ LET st == GroupOne(group_filters,
                          [grouped_tr |-> grouped_tr, ungrouped_tr |-> ungrouped_tr,
                           new_group_currenys |-> new_group_currenys],
                          sorted_tr[i])
       IN /\ grouped_tr' = st.grouped_tr
          /\ ungrouped_tr' = st.ungrouped_tr
          /\ new_group_currenys' = st.new_group_currenys
    /\ i' = i + 1
    /\ UNCHANGED <<assignments, group_filters, console, pc, transfers, ptr, sorted_tr,
                   groups, trs, gi, rows, ri, returned>>

\* _group_transfers: the groups are collected and returned to _merge_transfers
GroupReturn ==
    /\ pc = "group"
    /\ i > Len(sorted_tr)
    /\ groups' = CollectGroups(grouped_tr)
    /\ trs' = ungrouped_tr
    /\ gi' = 1
    /\ pc' = "merge"
    /\ UNCHANGED <<assignments, group_filters, console, transfers, ptr, sorted_tr, i,
                   grouped_tr, ungrouped_tr, new_group_currenys, rows, ri, returned>>

\* _merge_transfers: one iteration of 'for g in groups'; g[0] of an empty group raises
MergeStep ==
    /\ pc = "merge"
    /\ gi <= Len(groups)
    /\ IF groups[gi] = <<>>
       THEN /\ pc' = "IndexError"
            /\ returned' = Append(returned, [raised |-> TRUE, value |-> <<>>])
            /\ UNCHANGED <<trs, gi>>
       ELSE /\ trs' = Append(trs, Aggregate(groups[gi],
                                            Len(transfers) + Cardinality(Allocated) + gi))
            /\ gi' = gi + 1
            /\ UNCHANGED <<pc, returned>>
    /\ UNCHANGED <<assignments, group_filters, console, transfers, ptr, sorted_tr, i,
                   grouped_tr, ungrouped_tr, new_group_currenys, groups, rows, ri>>

\* _merge_transfers: trs.sort and return; export_csv goes on to the rows
MergeReturn ==
    /\ pc = "merge"
    /\ gi > Len(groups)
    /\ trs' = SortByTimestamp(trs)
    /\ ptr' = SortByTimestamp(trs)
    /\ returned' = Append(returned, [raised |-> FALSE, value |-> SortByTimestamp(trs)])
    /\ pc' = "write"
    /\ console' = "Writing CSV for CoinTracking.info ..."
    /\ rows' = <<>>
    /\ ri' = 1
    /\ UNCHANGED <<assignments, group_filters, transfers, sorted_tr, i, grouped_tr,
                   ungrouped_tr, new_group_currenys, groups, gi>>

\* export_csv: one iteration of 'for tr in ptr'
WriteRow ==
    /\ pc = "write"
    /\ ri <= Len(ptr)
    /\ LET tr_type == RowType(assignments, ptr[ri])
       IN IF tr_type = "exit"
          THEN /\ console' = "Something went wrong."
               /\ pc' = "exit"
               /\ UNCHANGED <<rows, ri>>
          ELSE /\ rows' = Append(rows, [tr_type |-> tr_type, tr |-> ptr[ri]])
               /\ ri' = ri + 1
               /\ UNCHANGED <<console, pc>>
    /\ UNCHANGED <<assignments, group_filters, transfers, ptr, sorted_tr, i, grouped_tr,
                   ungrouped_tr, new_group_currenys, groups, trs, gi, returned>>

WriteFinish ==
    /\ pc = "write"
    /\ ri > Len(ptr)
    /\ console' = "Writing CSV finished."
    /\ pc' = "done"
    /\ UNCHANGED <<assignments, group_filters, transfers, ptr, sorted_tr, i, grouped_tr,
                   ungrouped_tr, new_group_currenys, groups, trs, gi, rows, ri, returned>>

Pipeline == GroupStep \/ GroupReturn \/ MergeStep \/ MergeReturn \/ WriteRow \/ WriteFinish

----------------------------------------------------------------------------
(* Specifications.  Each explores the same program over one family of inputs:  *)
(* the registration calls the caller may make and the transfers the ledger may *)
(* return.  A call is <<transfer_type or currency, from_address, to_address>>. *)
(* Assignment rules bear on the rows alone, so only the specification of the    *)
(* classification registers any; the others make the rejected call.            *)

RejectedAssign == <<"Mining", None, None>>
RejectedFilter == <<"X", None, None>>

\* Grouping: three counterparties' worth of transfers of the wallet W in two
\* tokens; deposit-style rules on A and on B, a withdrawal-style rule on A.
\* All timestamps are equal, so every processing order is an arrival order.
GroupingAssigns == {RejectedAssign}
GroupingFilters == {RejectedFilter, <<"X", "A", None>>, <<"X", None, "A">>, <<"X", "B", None>>}
GroupingTransfers ==
    TransferRecords({<<"A", "W">>, <<"W", "A">>, <<"B", "W">>}, {"X", "Y"}, {1}, {1}, {TRUE})

Next ==
    \/ \E a \in GroupingAssigns : add_assign(a[1], a[2], a[3])
    \/ \E f \in GroupingFilters : add_group_filter(f[1], f[2], f[3])
    \/ \E fetched \in Ledger(GroupingTransfers) : export_csv(fetched)
    \/ Pipeline

Spec == Init /\ [][Next]_vars

\* Deposits: two tokens and deposit-style rules only, on A and on B, so that no
\* withdrawal is ever matched.
DepositAssigns == {RejectedAssign}
DepositFilters == {RejectedFilter, <<"X", "A", None>>, <<"X", "B", None>>}
DepositTransfers ==
    TransferRecords({<<"A", "W">>, <<"B", "W">>, <<"W", "A">>}, {"X", "Y"}, {1}, {1}, {TRUE})

NextDeposit ==
    \/ \E a \in DepositAssigns : add_assign(a[1], a[2], a[3])
    \/ \E f \in DepositFilters : add_group_filter(f[1], f[2], f[3])
    \/ \E fetched \in Ledger(DepositTransfers) : export_csv(fetched)
    \/ Pipeline

SpecDeposit == Init /\ [][NextDeposit]_vars

\* Again: export_csv run up to MaxCalls times on one exporter and one ledger;
\* one token, a deposit-style rule on A, two timestamps in any arrival order.
AgainAssigns == {RejectedAssign}
AgainFilters == {RejectedFilter, <<"X", "A", None>>}
AgainTransfers ==
    TransferRecords({<<"A", "W">>, <<"B", "W">>}, {"X"}, {1}, {1, 2}, {TRUE})

NextAgain ==
    \/ \E a \in AgainAssigns : add_assign(a[1], a[2], a[3])
    \/ \E f \in AgainFilters : add_group_filter(f[1], f[2], f[3])
    \/ \E fetched \in Ledger(AgainTransfers) : export_csv(fetched)
    \/ export_csv_again
    \/ Pipeline

SpecAgain == Init /\ [][NextAgain]_vars

\* Time: transfers of one token arriving in any order of timestamps.
TimeAssigns == {RejectedAssign}
TimeFilters == {RejectedFilter, <<"X", "A", None>>}
TimeTransfers ==
    TransferRecords({<<"A", "W">>, <<"B", "W">>}, {"X"}, {1}, 1..MaxTime, {TRUE})

NextTime ==
    \/ \E a \in TimeAssigns : add_assign(a[1], a[2], a[3])
    \/ \E f \in TimeFilters : add_group_filter(f[1], f[2], f[3])
    \/ \E fetched \in Ledger(TimeTransfers) : export_csv(fetched)
    \/ Pipeline

SpecTime == Init /\ [][NextTime]_vars

\* Value: amounts vary, in both directions.
ValueAssigns == {RejectedAssign}
ValueFilters == {RejectedFilter, <<"X", "A", None>>, <<"X", None, "A">>}
ValueTransfers ==
    TransferRecords({<<"A", "W">>, <<"W", "A">>}, {"X"}, 1..MaxAmount, {1}, {TRUE})

NextValue ==
    \/ \E a \in ValueAssigns : add_assign(a[1], a[2], a[3])
    \/ \E f \in ValueFilters : add_group_filter(f[1], f[2], f[3])
    \/ \E fetched \in Ledger(ValueTransfers) : export_csv(fetched)
    \/ Pipeline

SpecValue == Init /\ [][NextValue]_vars

\* Confirmed: the finality flag varies.
ConfirmedAssigns == {RejectedAssign}
ConfirmedFilters == {RejectedFilter, <<"X", "A", None>>}
ConfirmedTransfers ==
    TransferRecords({<<"A", "W">>, <<"B", "W">>}, {"X"}, {1}, {1}, BOOLEAN)

NextConfirmed ==
    \/ \E a \in ConfirmedAssigns : add_assign(a[1], a[2], a[3])
    \/ \E f \in ConfirmedFilters : add_group_filter(f[1], f[2], f[3])
    \/ \E fetched \in Ledger(ConfirmedTransfers) : export_csv(fetched)
    \/ Pipeline

SpecConfirmed == Init /\ [][NextConfirmed]_vars

\* Classification: rules with different labels that match the same transfer, and
\* a transfer (B to A) that involves the wallet on neither side.
ClassifyAssigns ==
    {RejectedAssign, <<"Mining", "A", None>>, <<"Expense", "A", None>>, <<"Expense", None, "B">>}
ClassifyFilters == {RejectedFilter, <<"X", "A", None>>}
ClassifyTransfers ==
    TransferRecords({<<"A", "W">>, <<"B", "W">>, <<"W", "B">>, <<"B", "A">>}, {"X"}, {1}, {1}, {TRUE})

NextClassify ==
    \/ \E a \in ClassifyAssigns : add_assign(a[1], a[2], a[3])
    \/ \E f \in ClassifyFilters : add_group_filter(f[1], f[2], f[3])
    \/ \E fetched \in Ledger(ClassifyTransfers) : export_csv(fetched)
    \/ Pipeline

SpecClassify == Init /\ [][NextClassify]_vars

----------------------------------------------------------------------------
(* Properties *)

Range(s) == {s[k] : k \in 1..Len(s)}

RECURSIVE SumAmounts(_)
SumAmounts(s) ==
    IF s = <<>> THEN 0 ELSE s[1].amount + SumAmounts(Tail(s))

NonDecreasing(s) ==
    \A j, k \in 1..Len(s) : j < k => s[j].timestamp <= s[k].timestamp

\* _group_transfers has returned
Grouped == pc \in {"merge", "write", "done", "exit", "IndexError"} /\ group_filters # <<>>
\* _merge_transfers has returned
Merged == pc \in {"write", "done", "exit"} /\ group_filters # <<>>

\* the loops of the pipeline arrive at what the functions return as a whole
PipelineAgrees ==
    /\ Grouped => [groups |-> groups, ungrouped |-> ungrouped_tr]
                      = group_transfers(group_filters, transfers)
    /\ Merged => merge_transfers(group_filters, transfers) = [raised |-> FALSE, value |-> ptr]
    /\ pc = "IndexError" => merge_transfers(group_filters, transfers).raised

\* the aggregates built so far for the k-th group: the objects numbered for it
AggregatesFor(k) == {r \in Range(trs) : r.id = Len(transfers) + k}

\* the records of the rows written so far
RowRecords == [k \in 1..Len(rows) |-> rows[k].tr]

\* C1: conservation.  Once the merge loop has passed the k-th group returned by
\* _group_transfers, the list holds exactly one aggregate for it, and the
\* aggregate's amount is the integer sum of the amounts of the group's members.
C1_Conservation ==
    Grouped =>
        \A k \in 1..(gi - 1) :
            /\ Cardinality(AggregatesFor(k)) = 1
            /\ \A r \in AggregatesFor(k) : r.amount = SumAmounts(groups[k])

\* a group of two members of different amounts has been merged into one record of 3
C1_Witness ==
    /\ Merged
    /\ \E k \in 1..Len(groups) :
          /\ Len(groups[k]) = 2
          /\ groups[k][1].amount = 2 /\ groups[k][2].amount = 1
          /\ \E r \in Range(ptr) : r.id = Len(transfers) + k /\ r.amount = 3

\* C2: chronological monotonicity.  The records of the rows written are
\* non-decreasing in timestamp, whatever the rules and the arrival order.
C2_RowsChronological == NonDecreasing(RowRecords)

\* C3: no-rule pass-through.  With no group rule, the list the rows are written
\* from is the fetched list itself, the rows written carry its records in its
\* order, all of them once the run is done, and _group_transfers and
\* _merge_transfers return (empty, transfers) and transfers.
C3_PassThrough ==
    (group_filters = <<>> /\ pc \in {"write", "done", "exit"}) =>
        /\ ptr = transfers
        /\ RowRecords = SubSeq(transfers, 1, Len(rows))
        /\ pc = "done" => Len(rows) = Len(transfers)
        /\ group_transfers(group_filters, transfers) = [groups |-> <<>>, ungrouped |-> transfers]
        /\ merge_transfers(group_filters, transfers) = [raised |-> FALSE, value |-> transfers]

\* a run without group rules has written out a list that arrived out of order
C3_Witness ==
    /\ group_filters = <<>>
    /\ pc = "done"
    /\ Len(transfers) = 3
    /\ transfers[1].timestamp > transfers[2].timestamp
    /\ RowRecords = transfers

\* every group the grouping pass holds, in the order it returns them
AllGroups == CollectGroups(grouped_tr)

\* place of the object t in the processing order
Pos(t) == CHOOSE p \in 1..Len(sorted_tr) : sorted_tr[p].id = t.id

\* no group rule matches u: no rule has a set address field equal to u's
RuleMatchFails(u) ==
    \A k \in 1..Len(group_filters) :
        /\ ~(group_filters[k].from_address # None
              /\ group_filters[k].from_address = u.from_address)
        /\ ~(group_filters[k].to_address # None
              /\ group_filters[k].to_address = u.to_address)

\* C4: grouping contiguity.  During and after the grouping pass, between two
\* members of one group no transfer of their token that matches no group rule
\* lies in the processing order.
C4_Contiguity ==
    (pc # "config" /\ group_filters # <<>>) =>
        \A n \in 1..Len(AllGroups) :
            \A a, b \in Range(AllGroups[n]) :
                \A p \in 1..Len(sorted_tr) :
                    (Pos(a) < p /\ p < Pos(b)) =>
                        ~(sorted_tr[p].token_name = a.token_name /\ RuleMatchFails(sorted_tr[p]))

\* Scenario B: two deposits from A interrupted by an unmatched transfer of the
\* same token have become two groups of one member each
C4_Witness ==
    /\ Grouped
    /\ Len(group_filters) = 1 /\ group_filters[1].from_address = "A"
    /\ Len(sorted_tr) = 3
    /\ \A p \in 1..3 : sorted_tr[p].token_name = "X"
    /\ sorted_tr[1].from_address = "A" /\ sorted_tr[3].from_address = "A"
    /\ sorted_tr[2].from_address = "B"
    /\ groups = << <<sorted_tr[1]>>, <<sorted_tr[3]>> >>
    /\ ungrouped_tr = <<sorted_tr[2]>>

\* C5: an aggregate is confirmed exactly when every member of its group is.
C5_ConfirmedIffAll ==
    Grouped =>
        \A k \in 1..(gi - 1) : \A r \in AggregatesFor(k) :
            r.confirmed <=> (\A m \in Range(groups[k]) : m.confirmed)

\* the rule matches tr through an address field that is set
SetFieldMatch(rule, tr) ==
    \/ rule.from_address # None /\ tr.from_address = rule.from_address
    \/ rule.to_address # None /\ tr.to_address = rule.to_address

\* C6: classification.  Every row written is the row of the record at its place
\* in the list, labelled by the first assignment rule, in registration order,
\* that matches the record through a set address field; without such a rule
\* Deposit when the record goes to the wallet, else Withdrawal, the record then
\* coming from the wallet.
C6_Classification ==
    \A k \in 1..Len(rows) :
        LET tr == rows[k].tr
            label == rows[k].tr_type
        IN /\ tr = ptr[k]
           /\ IF \E m \in 1..Len(assignments) : SetFieldMatch(assignments[m], tr)
              THEN \E m \in 1..Len(assignments) :
                      /\ SetFieldMatch(assignments[m], tr)
                      /\ \A l \in 1..(m-1) : ~SetFieldMatch(assignments[l], tr)
                      /\ label = assignments[m].transfer_type
              ELSE IF tr.to_address = wallet_address
                   THEN label = "Deposit"
                   ELSE tr.from_address = wallet_address /\ label = "Withdrawal"

\* two rules of different labels match the first record and the first one won;
\* the other rows fell back to the direction, one each way
C6_Witness ==
    /\ pc = "done"
    /\ Len(assignments) = 2
    /\ assignments[1].transfer_type = "Expense" /\ assignments[2].transfer_type = "Mining"
    /\ Len(rows) = 3
    /\ SetFieldMatch(assignments[1], rows[1].tr) /\ SetFieldMatch(assignments[2], rows[1].tr)
    /\ rows[1].tr_type = "Expense"
    /\ rows[2].tr_type = "Deposit" /\ rows[3].tr_type = "Withdrawal"

\* tr matches no assignment rule and involves the wallet on neither side
Unclassifiable(tr) ==
    /\ \A m \in 1..Len(assignments) : ~SetFieldMatch(assignments[m], tr)
    /\ tr.from_address # wallet_address
    /\ tr.to_address # wallet_address

\* C7: an unclassifiable record is fatal.  No row is ever written for one, the
\* row loop never gets past one, a run that finishes had none, and a run that
\* exits stopped at one, after printing the error.
C7_UnclassifiableFatal ==
    /\ \A k \in 1..Len(rows) : ~Unclassifiable(rows[k].tr)
    /\ pc \in {"write", "done", "exit"} =>
           \A k \in 1..(ri - 1) : ~Unclassifiable(ptr[k])
    /\ pc = "done" => \A k \in 1..Len(ptr) : ~Unclassifiable(ptr[k])
    /\ pc = "exit" =>
           /\ ri <= Len(ptr)
           /\ Unclassifiable(ptr[ri])
           /\ Len(rows) = ri - 1
           /\ console = "Something went wrong."

\* a run has exited at an unclassifiable record that follows a classifiable one
C7_Witness ==
    /\ pc = "exit"
    /\ ri = 2
    /\ Len(rows) = 1
    /\ ptr[2].from_address = "B" /\ ptr[2].to_address = "A"

RulesUsable ==
    /\ \A k \in 1..Len(assignments) :
           assignments[k].from_address # None \/ assignments[k].to_address # None
    /\ \A k \in 1..Len(group_filters) :
           group_filters[k].from_address # None \/ group_filters[k].to_address # None

RejectionMessage == "Either sender address or destination address must be set."

\* C8: a registration without an address is rejected.  Every stored assignment
\* rule and every stored group rule has an address field set, and a step that
\* prints the rejection leaves both lists as they were.
C8_RejectedAtRegistration ==
    /\ []RulesUsable
    /\ [][(console # RejectionMessage /\ console' = RejectionMessage)
            => UNCHANGED <<assignments, group_filters>>]_vars

\* rules of both kinds are stored and a registration has been rejected
C8_Witness ==
    /\ console = RejectionMessage
    /\ Len(assignments) = 1
    /\ Len(group_filters) = 2

\* C9: every group returned by _group_transfers is non-empty, and
\* _merge_transfers never fails on the first member of a group.
C9_GroupsNonEmpty ==
    /\ pc # "IndexError"
    /\ Grouped => \A k \in 1..Len(groups) : groups[k] # <<>>

\* C10: group homogeneity.  The members of a returned group agree with its
\* first member, from which the aggregate's fields are taken, in token_name,
\* from_address and to_address.
C10_Homogeneous ==
    Grouped =>
        \A k \in 1..Len(groups) : \A m \in Range(groups[k]) :
            /\ m.token_name = groups[k][1].token_name
            /\ m.from_address = groups[k][1].from_address
            /\ m.to_address = groups[k][1].to_address

\* some group rule matches t through a set address field
RuleMatches(t) == ~RuleMatchFails(t)

\* the first group rule, in registration order, that matches t
MatchingRule(t) ==
    group_filters[CHOOSE k \in 1..Len(group_filters) :
        /\ ~RuleMatchFails(t)
        /\ \/ group_filters[k].from_address # None
              /\ group_filters[k].from_address = t.from_address
           \/ group_filters[k].to_address # None
              /\ group_filters[k].to_address = t.to_address
        /\ \A l \in 1..(k-1) :
              /\ ~(group_filters[l].from_address # None
                    /\ group_filters[l].from_address = t.from_address)
              /\ ~(group_filters[l].to_address # None
                    /\ group_filters[l].to_address = t.to_address)]

\* direction and counterparty of a matched transfer: deposit-style when the
\* rule's from_address takes it, withdrawal-style otherwise
Outgoing(t) ==
    ~(MatchingRule(t).from_address # None /\ MatchingRule(t).from_address = t.from_address)
Counterparty(t) == IF Outgoing(t) THEN t.to_address ELSE t.from_address

\* the grouping pass is about to process the matched transfer t, whose token's
\* last group has t's direction and counterparty, the token not being flagged
ExtendsRun(t) ==
    /\ RuleMatches(t)
    /\ KeyIndex(grouped_tr, t.token_name) # 0
    /\ LET e == grouped_tr[KeyIndex(grouped_tr, t.token_name)]
       IN /\ e.count >= 1
          /\ e.groups[e.count].is_outgoing = Outgoing(t)
          /\ e.groups[e.count].address = Counterparty(t)
    /\ ~InList(new_group_currenys, t.token_name)

\* C11: run extension.  A step of the grouping pass that processes a matched
\* transfer whose token's last group has its direction and counterparty, with
\* the token's flag clear, appends the transfer to that group and opens no group.
C11_RunExtension ==
    [][(pc = "group" /\ i <= Len(sorted_tr) /\ ExtendsRun(sorted_tr[i])) =>
          LET k == KeyIndex(grouped_tr, sorted_tr[i].token_name)
              n == grouped_tr[k].count
          IN /\ grouped_tr'[k].count = n
             /\ Len(grouped_tr'[k].groups) = Len(grouped_tr[k].groups)
             /\ grouped_tr'[k].groups[n].transfers
                    = Append(grouped_tr[k].groups[n].transfers, sorted_tr[i])]_vars

\* the group, in the order returned, that holds the object t; 0 if none does
GroupOf(t) ==
    IF \E n \in 1..Len(AllGroups) : \E m \in Range(AllGroups[n]) : m.id = t.id
    THEN CHOOSE n \in 1..Len(AllGroups) : \E m \in Range(AllGroups[n]) : m.id = t.id
    ELSE 0

\* what the grouping pass holds for the token tok: its groups and its flag
TokenState(grouped, flags, tok) ==
    [groups |-> IF KeyIndex(grouped, tok) = 0 THEN <<>> ELSE grouped[KeyIndex(grouped, tok)].groups,
     known |-> KeyIndex(grouped, tok) # 0,
     flagged |-> InList(flags, tok)]

\* a step of the grouping pass leaves every token but the processed one alone
OtherTokensUntouched ==
    [][(pc = "group" /\ i <= Len(sorted_tr)) =>
          \A tok \in {sorted_tr[p].token_name : p \in 1..Len(sorted_tr)} \ {sorted_tr[i].token_name} :
              TokenState(grouped_tr', new_group_currenys', tok)
                  = TokenState(grouped_tr, new_group_currenys, tok)]_vars

\* two matched transfers of one token, of one direction and counterparty, with
\* only transfers of other tokens between them, are in the same group
SameRunAcrossTokens ==
    Grouped =>
        \A p, q \in 1..Len(sorted_tr) :
            (/\ p < q
             /\ sorted_tr[p].token_name = sorted_tr[q].token_name
             /\ RuleMatches(sorted_tr[p]) /\ RuleMatches(sorted_tr[q])
             /\ Outgoing(sorted_tr[p]) = Outgoing(sorted_tr[q])
             /\ Counterparty(sorted_tr[p]) = Counterparty(sorted_tr[q])
             /\ \A r \in (p+1)..(q-1) : sorted_tr[r].token_name # sorted_tr[p].token_name)
            => GroupOf(sorted_tr[p]) = GroupOf(sorted_tr[q])

\* C12: per-token independence.  Processing a transfer of one token changes
\* neither the groups nor the flag of another token, and two matched transfers
\* of a token with one direction and counterparty that only transfers of other
\* tokens separate stay in one group.
C12_PerTokenIndependence == OtherTokensUntouched /\ []SameRunAcrossTokens

\* C13: no partial output on failure.  When the run exits at an unclassifiable
\* record, no row has been written.
C13_NoPartialOutput == pc = "exit" => rows = <<>>

\* the records of the returned list that are the aggregate of the k-th group
ReturnedFor(k) == {r \in Range(ptr) : r.id = Len(transfers) + k}

\* C14: one aggregate per group.  The list _merge_transfers returns holds every
\* ungrouped transfer as it was and, for each group, groups of one member
\* included, exactly one new record carrying the merge comment with the dates of
\* the group's first and last member; nothing else, so its length is the number
\* of ungrouped transfers plus the number of groups.
C14_OneAggregatePerGroup ==
    Merged =>
        /\ Len(ptr) = Len(ungrouped_tr) + Len(groups)
        /\ Cardinality({ptr[k].id : k \in 1..Len(ptr)}) = Len(ptr)
        /\ \A u \in Range(ungrouped_tr) : u \in Range(ptr)
        /\ \A k \in 1..Len(groups) :
              /\ Cardinality(ReturnedFor(k)) = 1
              /\ \A r \in ReturnedFor(k) :
                    /\ r \notin Range(transfers)
                    /\ r.comment = <<"Grouped", get_date(groups[k][1].timestamp),
                                     get_date(groups[k][Len(groups[k])].timestamp)>>
                    /\ Len(groups[k]) = 1 => r.comment[2] = r.comment[3]

\* two groups of one member each and one ungrouped transfer have come back as
\* three records, neither member among them
C14_Witness ==
    /\ Merged
    /\ Len(groups) = 2 /\ Len(groups[1]) = 1 /\ Len(groups[2]) = 1
    /\ Len(ungrouped_tr) = 1
    /\ Len(ptr) = 3
    /\ groups[1][1] \notin Range(ptr) /\ groups[2][1] \notin Range(ptr)
    /\ groups[1][1].timestamp # groups[2][1].timestamp

\* C15: the aggregate of a group is dated at the group's last member, and no
\* member of the group is later.
C15_AggregateTimestamp ==
    Grouped =>
        \A k \in 1..(gi - 1) : \A r \in AggregatesFor(k) :
            /\ r.timestamp = groups[k][Len(groups[k])].timestamp
            /\ \A m \in Range(groups[k]) : m.timestamp <= r.timestamp

\* a group whose latest member arrived first has been merged
C15_Witness ==
    /\ Merged
    /\ Len(transfers) >= 2
    /\ transfers[1].timestamp = 3 /\ transfers[2].timestamp = 1
    /\ \E k \in 1..Len(groups) :
          /\ transfers[1] \in Range(groups[k]) /\ transfers[2] \in Range(groups[k])
          /\ \E r \in ReturnedFor(k) : r.timestamp = 3

\* a returned group without members is followed at once by a group with members
\* (the one opened in the same step, for the same transfer)
EmptyGroupsPaired ==
    \A k \in 1..Len(groups) : groups[k] = <<>> => (k < Len(groups) /\ groups[k+1] # <<>>)

\* the transfer at whose processing the k-th returned group was opened
Opener(k) == IF groups[k] # <<>> THEN groups[k][1] ELSE groups[k+1][1]

\* place in the processing order of the first matched transfer of the token tok
FirstMatched(tok) ==
    CHOOSE p \in 1..Len(sorted_tr) :
        /\ sorted_tr[p].token_name = tok /\ RuleMatches(sorted_tr[p])
        /\ \A q \in 1..(p-1) : ~(sorted_tr[q].token_name = tok /\ RuleMatches(sorted_tr[q]))

\* the ungrouped transfers are the unmatched ones, in processing order
UngroupedInOrder ==
    /\ \A j, k \in 1..Len(ungrouped_tr) : j < k => Pos(ungrouped_tr[j]) < Pos(ungrouped_tr[k])
    /\ \A u \in Range(ungrouped_tr) : u \in Range(sorted_tr) /\ RuleMatchFails(u)

\* C16 as stated: the groups are returned in the order in which they were
\* opened during the pass, across all tokens, and the ungrouped transfers in
\* processing order.
C16_DiscoveryOrder ==
    Grouped =>
        /\ EmptyGroupsPaired
        /\ \A k, l \in 1..Len(groups) : k < l => Pos(Opener(k)) <= Pos(Opener(l))
        /\ UngroupedInOrder

\* C16, amended: the groups are returned token by token, the tokens in the order
\* of their first matched transfer and the groups of one token in the order in
\* which they were opened; the ungrouped transfers in processing order.
C16_TokenMajorOrder ==
    Grouped =>
        /\ EmptyGroupsPaired
        /\ \A k, l \in 1..Len(groups) : k < l =>
              IF Opener(k).token_name = Opener(l).token_name
              THEN Pos(Opener(k)) <= Pos(Opener(l))
              ELSE FirstMatched(Opener(k).token_name) < FirstMatched(Opener(l).token_name)
        /\ UngroupedInOrder

\* a group of token Y was opened between two groups of token X and is returned
\* after both
C16_Witness ==
    /\ Grouped
    /\ Len(groups) = 3
    /\ \A k \in 1..3 : Len(groups[k]) = 1
    /\ groups[1][1].token_name = "X" /\ groups[2][1].token_name = "X"
    /\ groups[3][1].token_name = "Y"
    /\ Pos(groups[1][1]) = 1 /\ Pos(groups[3][1]) = 2 /\ Pos(groups[2][1]) = 3

\* the places at which the object t occurs in the groups and in the ungrouped list
PlacesInGroups(t) ==
    {<<k, m>> \in (1..Len(groups)) \X (1..Len(transfers)) :
        m <= Len(groups[k]) /\ groups[k][m] = t}
PlacesUngrouped(t) == {j \in 1..Len(ungrouped_tr) : ungrouped_tr[j] = t}

\* C17: partition.  With group rules, what _group_transfers returns holds
\* nothing but input transfers, and each input transfer exactly once: in one
\* group when some group rule matches it, in the ungrouped list when none does.
C17_Partition ==
    Grouped =>
        /\ \A k \in 1..Len(groups) : Range(groups[k]) \subseteq Range(transfers)
        /\ Range(ungrouped_tr) \subseteq Range(transfers)
        /\ \A t \in Range(transfers) :
              /\ Cardinality(PlacesInGroups(t)) + Cardinality(PlacesUngrouped(t)) = 1
              /\ PlacesInGroups(t) # {} <=> RuleMatches(t)

\* three transfers have been split into a deposit group, a withdrawal group and
\* one ungrouped transfer
C17_Witness ==
    /\ Grouped
    /\ Len(transfers) = 3
    /\ Len(ungrouped_tr) = 1
    /\ \E k, l \in 1..Len(groups) :
          /\ k # l /\ Len(groups[k]) = 1 /\ Len(groups[l]) = 1
          /\ groups[k][1].from_address = "A" /\ groups[l][1].to_address = "A"

\* what a call returned, the aggregates it built compared by their fields and
\* not by which objects they are
ByValue(outcome) ==
    [raised |-> outcome.raised,
     value |-> [k \in 1..Len(outcome.value) |->
                  IF outcome.value[k].id \in 1..Len(transfers)
                  THEN outcome.value[k]
                  ELSE [outcome.value[k] EXCEPT !.id = 0]]]

SameResult == \A a, b \in 1..Len(returned) : ByValue(returned[a]) = ByValue(returned[b])

\* C18: read-only processing.  From the fetch on, no step of _merge_transfers,
\* of the _group_transfers call inside it or of the rows changes the input
\* transfers, the assignment rules or the group rules, and a later call of
\* _merge_transfers on the same input ends as the earlier one did, with an
\* equal list.
C18_ReadOnly ==
    /\ []SameResult
    /\ [][pc # "config" => UNCHANGED <<transfers, assignments, group_filters>>]_vars

\* _merge_transfers has returned twice on an input out of timestamp order, with
\* an aggregate of two transfers and one ungrouped transfer in the list
C18_Witness ==
    /\ Len(returned) = 2
    /\ Len(transfers) = 3
    /\ ~NonDecreasing(transfers)
    /\ Len(returned[2].value) = 2
    /\ \E r \in Range(returned[2].value) : r.id > Len(transfers) /\ r.amount = 2
    /\ \E r \in Range(returned[1].value) : r.id > Len(transfers) /\ r.amount = 2

====
